---- MODULE Spec2Model ----
\* Provider dispatch and chat persistence of src/pages/api/graphql.ts:
\* the GraphQL resolvers (getAIResponse, getPromptHistory, getChats,
\* getChatById, savePrompt, createChat, updateChatTitle, deleteChat), the
\* four vendor branches of getAIResponse, and the two tables (chats, prompts)
\* they read and write through the supabase client.  Every resolver is an
\* async function: it runs without interruption up to its next await, and
\* other requests run between its awaits.  A request is therefore a process
\* with a program counter that names the await it is suspended at.
EXTENDS Integers, Sequences, FiniteSets, TLC

\* ------------------------------------------------------------------ bounds
MaxDispatched == 2
MaxStored == 3
MaxInterleaved == 2
MaxTimed == 2
MaxTitled == 2
MaxRead == 3
MaxListed == 4
MaxPaired == 2
MaxAuthenticated == 2
MaxHandled == 4
MaxChats == 2
MaxPrompts == 2
MaxClock == 2

\* ------------------------------------------------------- program constants
TitleLimit == 30
HistoryLimit == 20

\* ------------------------------------------------------------- identities
Reqs == {1, 2}
Users == {"u1", "u2"}
NoUser == "null"
Undefined == "undefined"
EmptyId == ""

ChatId(n) == "c" \o ToString(n)
PromptId(n) == "p" \o ToString(n)
AllChatIds == {ChatId(n) : n \in 1..MaxChats}

\* JavaScript truthiness of the optional chatId argument (!chatIdToUse).
Falsy(id) == id \in {Undefined, EmptyId}

\* ----------------------------------------------------------------- strings
\* s.includes(t)
Contains(s, t) ==
    \E i \in 1..(Len(s) - Len(t) + 1) : SubSeq(s, i, i + Len(t) - 1) = t

\* s.replace(t, u) with a string pattern: the first occurrence only.
IndexOf(s, t) ==
    IF Contains(s, t)
    THEN CHOOSE i \in 1..(Len(s) - Len(t) + 1) :
            /\ SubSeq(s, i, i + Len(t) - 1) = t
            /\ \A j \in 1..(i - 1) : SubSeq(s, j, j + Len(t) - 1) # t
    ELSE 0

Replace(s, t, u) ==
    LET i == IndexOf(s, t)
    IN  IF i = 0 THEN s
        ELSE SubSeq(s, 1, i - 1) \o u \o SubSeq(s, i + Len(t), Len(s))

\* s.substring(0, n)
Substring0(s, n) == IF Len(s) > n THEN SubSeq(s, 1, n) ELSE s

\* DefaultTitle with >= in place of >.
DefaultTitleOffByOne(prompt) ==
    IF Len(prompt) >= TitleLimit
    THEN Substring0(prompt, TitleLimit) \o "..."
    ELSE prompt

\* prompt.length > 30 ? prompt.substring(0, 30) + "..." : prompt
DefaultTitle(prompt) ==
    IF Len(prompt) > TitleLimit
    THEN Substring0(prompt, TitleLimit) \o "..."
    ELSE prompt

\* ------------------------------------------------------------- the vendors
Supported == {"openai", "gemini", "anthropic", "mistral"}

VendorName(provider) ==
    CASE provider = "openai" -> "OpenAI"
      [] provider = "gemini" -> "Gemini"
      [] provider = "anthropic" -> "Anthropic"
      [] provider = "mistral" -> "Mistral"

\* What the vendor sends back.  net = "throw": fetch rejects (no response).
\* Otherwise a status and a body.  A body is raw text, or a JSON object seen
\* through the two things the code looks at:
\*   error: the "error" member  (absent, null, a string, an object with a
\*          message)
\*   gen:   the generated text at the vendor's path
\*          (choices[0].message.content, candidates[0].content.parts[0].text,
\*          content[0].text): "noarr" no array, "emptyarr" empty array,
\*          "nomsg" element without message/content, "notext" no text
\*          member, "emptytext" the text "", "nonstring" a number,
\*          "text" a non-empty string.
TextBody(t) == [kind |-> "text", text |-> t, error |-> "absent", gen |-> "noarr"]
JsonBody(e, g) == [kind |-> "json", text |-> "{}", error |-> e, gen |-> g]

ErrorMembers == {"absent", "null", "string", "object"}
GenShapes == {"noarr", "emptyarr", "nomsg", "notext", "emptytext", "nonstring", "text"}

GeneratedText == "Hello"
VendorErrorMessage == "quota exceeded"

HttpOk(status) == status >= 200 /\ status <= 299

Reply(status, body) == [net |-> "ok", status |-> status, body |-> body]
FetchThrows == [net |-> "throw", status |-> 0, body |-> TextBody("")]
NoReply == [net |-> "none", status |-> 0, body |-> TextBody("")]

\* The text the code reads at the vendor's path, when it is a string.
TextAt(body) == IF body.gen = "text" THEN GeneratedText ELSE ""

\* ------------------------------------------------------------- outcomes
\* A resolver ends by returning a value or by throwing new Error(msg).
\* kind names the throw site; msg is the message of the Error the caller gets.
NoValue == [t |-> "none"]
Ok(v) == [ok |-> TRUE, kind |-> "Success", msg |-> "", value |-> v]
Fail(kind, msg) == [ok |-> FALSE, kind |-> kind, msg |-> msg, value |-> NoValue]
Pending == [ok |-> FALSE, kind |-> "Pending", msg |-> "", value |-> NoValue]

\* The adapter's own result: the generated text, or the Error it threw.
Text(t) == [ok |-> TRUE, kind |-> "Success", msg |-> "", value |-> [t |-> "text", text |-> t]]

\* catch (error) { throw new Error(`Failed to get response from X: ${error.message}`) }
Wrapped(provider, kind, inner) ==
    Fail(kind, "Failed to get response from " \o VendorName(provider) \o ": " \o inner)

\* HttpError without the body text.
HttpErrorStatusOnly(provider, resp) ==
    Wrapped(provider, "Http",
            VendorName(provider) \o " API returned status " \o ToString(resp.status))

\* `X API returned status ${status}: ${errorText}`
HttpError(provider, resp) ==
    Wrapped(provider, "Http",
            VendorName(provider) \o " API returned status "
                \o ToString(resp.status) \o ": " \o resp.body.text)

\* response.json() / JSON.parse(text) on a body that is not JSON.
SyntaxErrorMessage(text) ==
    IF text = "" \/ text = " " THEN "Unexpected end of JSON input"
    ELSE "Unexpected token in JSON at position 0"

\* ApplicationError without the message of the vendor's error.
ApplicationErrorGeneric(provider, body) ==
    Wrapped(provider, "Application", VendorName(provider) \o " API Error")

\* `X API Error: ${data.error.message}`, evaluated on the error member.
ApplicationError(provider, body) ==
    CASE body.error = "object" ->
           Wrapped(provider, "Application",
                   VendorName(provider) \o " API Error: " \o VendorErrorMessage)
      [] body.error = "string" ->
           Wrapped(provider, "Application",
                   VendorName(provider) \o " API Error: undefined")
      [] OTHER ->
           Wrapped(provider, "Type",
                   "Cannot read properties of null (reading 'message')")

\* response = data.choices[0].message.content (or data.content[0].text),
\* followed by response.substring(...) in the log line.
ExtractUnchecked(provider, body) ==
    CASE body.gen \in {"noarr", "emptyarr", "nomsg"} ->
           Wrapped(provider, "Type", "Cannot read properties of undefined")
      [] body.gen = "notext" ->
           Wrapped(provider, "Type",
                   "Cannot read properties of undefined (reading 'substring')")
      [] body.gen = "nonstring" ->
           Wrapped(provider, "Type", "response.substring is not a function")
      [] OTHER -> Text(TextAt(body))

\* --- openai: lines 122-164
OpenAIAdapter(resp) ==
    IF resp.net = "throw" THEN Wrapped("openai", "Fetch", "fetch failed")
    ELSE IF ~HttpOk(resp.status) THEN HttpError("openai", resp)
    ELSE IF resp.body.kind = "text"
      THEN Wrapped("openai", "Parse", SyntaxErrorMessage(resp.body.text))
    ELSE IF resp.body.error # "absent"            \* 'error' in data
      THEN ApplicationError("openai", resp.body)
    ELSE ExtractUnchecked("openai", resp.body)

\* GeminiAdapter with the empty body taken for an empty answer.
GeminiAdapterEmptyAnswer(resp) ==
    IF resp.net = "throw" THEN Wrapped("gemini", "Fetch", "fetch failed")
    ELSE IF ~HttpOk(resp.status) THEN HttpError("gemini", resp)
    ELSE IF resp.body.kind = "text" /\ resp.body.text \in {"", " "}
      THEN Text("")
    ELSE IF resp.body.kind = "text"
      THEN Wrapped("gemini", "Parse", SyntaxErrorMessage(resp.body.text))
    ELSE IF resp.body.error \in {"string", "object"}
      THEN ApplicationError("gemini", resp.body)
    ELSE IF resp.body.gen = "text" THEN Text(TextAt(resp.body))
    ELSE IF resp.body.gen = "nonstring"
      THEN Wrapped("gemini", "Type", "response.substring is not a function")
    ELSE Wrapped("gemini", "Structure", "Unexpected Gemini API response structure")

\* --- gemini: lines 165-231 (after the API key check)
GeminiAdapter(resp) ==
    IF resp.net = "throw" THEN Wrapped("gemini", "Fetch", "fetch failed")
    ELSE IF ~HttpOk(resp.status) THEN HttpError("gemini", resp)
    ELSE IF resp.body.kind = "text" /\ resp.body.text \in {"", " "}
      THEN Wrapped("gemini", "Empty", "Empty response from Gemini API")
    ELSE IF resp.body.kind = "text"
      THEN Wrapped("gemini", "Parse", SyntaxErrorMessage(resp.body.text))
    ELSE IF resp.body.error \in {"string", "object"}   \* data.error is truthy
      THEN ApplicationError("gemini", resp.body)
    ELSE IF resp.body.gen = "text" THEN Text(TextAt(resp.body))
    ELSE IF resp.body.gen = "nonstring"
      THEN Wrapped("gemini", "Type", "response.substring is not a function")
    ELSE Wrapped("gemini", "Structure", "Unexpected Gemini API response structure")

\* --- anthropic: lines 233-274
AnthropicAdapter(resp) ==
    IF resp.net = "throw" THEN Wrapped("anthropic", "Fetch", "fetch failed")
    ELSE IF ~HttpOk(resp.status) THEN HttpError("anthropic", resp)
    ELSE IF resp.body.kind = "text"
      THEN Wrapped("anthropic", "Parse", SyntaxErrorMessage(resp.body.text))
    ELSE IF resp.body.error \in {"string", "object"}   \* data.error is truthy
      THEN ApplicationError("anthropic", resp.body)
    ELSE ExtractUnchecked("anthropic", resp.body)

\* --- mistral: lines 276-316
MistralAdapter(resp) ==
    IF resp.net = "throw" THEN Wrapped("mistral", "Fetch", "fetch failed")
    ELSE IF ~HttpOk(resp.status) THEN HttpError("mistral", resp)
    ELSE IF resp.body.kind = "text"
      THEN Wrapped("mistral", "Parse", SyntaxErrorMessage(resp.body.text))
    ELSE IF resp.body.error \in {"string", "object"}   \* data.error is truthy
      THEN ApplicationError("mistral", resp.body)
    ELSE ExtractUnchecked("mistral", resp.body)

\* The if / else-if chain on provider, from the fetch on.
Adapter(provider, resp) ==
    CASE provider = "openai" -> OpenAIAdapter(resp)
      [] provider = "gemini" -> GeminiAdapter(resp)
      [] provider = "anthropic" -> AnthropicAdapter(resp)
      [] provider = "mistral" -> MistralAdapter(resp)

\* ---------------------------------------------------------------- the state
VARIABLES
    chats,      \* table chats: rows [id, user_id, title, created_at, updated_at]
    prompts,    \* table prompts: rows [id, user_id, chat_id, provider, prompt,
                \*                      response, created_at, metadata]
    nextChat,   \* number of chat ids the store has generated
    nextPrompt, \* number of prompt ids the store has generated
    now,        \* the clock read by new Date() and by the store's now()
    req,        \* the requests: arguments, locals, the await each is at, outcome
    started,    \* number of requests received so far
    apolloServer,        \* the ApolloServer: its phase, the calls of start()
                         \* and of createHandler() made on it
    apolloServerHandler, \* the module-level handle, NoHandler until assigned
    handling    \* the calls of handler(req, res): the await each is at

vars == <<chats, prompts, nextChat, nextPrompt, now, req, started,
          apolloServer, apolloServerHandler, handling>>
store == <<chats, prompts, nextChat, nextPrompt>>
entry == <<apolloServer, apolloServerHandler, handling>>

\* let apolloServerHandler: any;
NoHandler == 0

NotHandling == [pc |-> "idle", method |-> "", handle |-> NoHandler, status |-> 0]

DbError == "db error"

\* One external call made by a request: the table operation or outbound call,
\* whether it succeeded, and the id of the row it returned.
Eff(what, ok, id) == [what |-> what, ok |-> ok, id |-> id]

Idle ==
    [op |-> "none", user |-> NoUser, provider |-> "", prompt |-> "",
     response |-> "", chatId |-> Undefined, title |-> "",
     chatIdToUse |-> Undefined, ts |-> 0, data |-> NoValue,
     reply |-> NoReply, before |-> NoValue,
     header |-> Undefined, idp |-> NoValue, context |-> NoValue,
     pc |-> "idle", result |-> Pending, log |-> <<>>]

\* The slots that hold a request, from its arrival to the delivery of its
\* response.
InFlight == {r \in Reqs : req[r].pc # "idle"}

\* context.user is null: throw new Error('Authentication required')
AuthRequired == Fail("Unauthenticated", "Authentication required")

Done(rec, result) == [rec EXCEPT !.pc = "done", !.result = result]
Logged(rec, e) == [rec EXCEPT !.log = Append(rec.log, e)]

\* A request arrives and takes the first free slot.  D bounds how many are in
\* flight.
CanStart(r, D) ==
    /\ req[r].pc = "idle"
    /\ \A q \in Reqs : q < r => req[q].pc # "idle"
    /\ started < D.requests
    /\ Cardinality(InFlight) < D.inflight

\* The two tables as a request served alone found them on arrival (kept for
\* comparison with the tables it leaves; requests served together do not
\* keep it).
Arrived(D, rec) ==
    [rec EXCEPT !.before = IF D.inflight = 1
                           THEN [t |-> "tables", chats |-> chats, prompts |-> prompts]
                           ELSE NoValue]

Init ==
    /\ chats = {}
    /\ prompts = {}
    /\ nextChat = 0
    /\ nextPrompt = 0
    /\ now = 0
    /\ req = [r \in Reqs |-> Idle]
    /\ started = 0
    /\ apolloServer = [phase |-> "initialized", starts |-> 0, handlers |-> 0]
    /\ apolloServerHandler = NoHandler
    /\ handling = [r \in Reqs |-> NotHandling]

\* Time passes.
Tick ==
    /\ now < MaxClock
    /\ now' = now + 1
    /\ UNCHANGED <<store, req, started, entry>>

\* The response of a finished request has been delivered; its slot is free.
Respond(r) ==
    /\ req[r].pc = "done"
    /\ req' = [req EXCEPT ![r] = Idle]
    /\ UNCHANGED <<store, now, started, entry>>

\* ------------------------------------------------------------ getAIResponse
\* GetAIResponseStart with a final else that falls back to a vendor call.
GetAIResponseStartFallback(user, provider, prompt, chatId, keyed) ==
    LET rec == [Idle EXCEPT !.op = "getAIResponse", !.user = user,
                            !.provider = provider, !.prompt = prompt,
                            !.chatId = chatId]
    IN  IF user = NoUser THEN Done(rec, AuthRequired)
        ELSE IF provider = "gemini" /\ ~keyed
          THEN Done(rec, Wrapped("gemini", "NoKey", "Gemini API key not configured"))
        ELSE [Logged(rec, Eff("fetch", TRUE, provider)) EXCEPT !.pc = "fetch"]

\* Lines 105-142: the authentication check, the provider chain up to the fetch.
GetAIResponseStart(user, provider, prompt, chatId, keyed) ==
    LET rec == [Idle EXCEPT !.op = "getAIResponse", !.user = user,
                            !.provider = provider, !.prompt = prompt,
                            !.chatId = chatId]
    IN  IF user = NoUser THEN Done(rec, AuthRequired)
        ELSE IF provider \notin Supported
          THEN Done(rec, Fail("UnsupportedProvider",
                              "Provider " \o provider \o " not supported"))
        ELSE IF provider = "gemini" /\ ~keyed
          THEN Done(rec, Wrapped("gemini", "NoKey", "Gemini API key not configured"))
        ELSE [Logged(rec, Eff("fetch", TRUE, provider)) EXCEPT !.pc = "fetch"]

GetAIResponse(r, D) ==
    /\ CanStart(r, D)
    /\ \E user \in D.users, provider \in D.providers, prompt \in D.prompts,
          chatId \in D.chatIds, keyed \in D.keyed :
         req' = [req EXCEPT ![r] =
                   Arrived(D, GetAIResponseStart(user, provider, prompt, chatId, keyed))]
    /\ started' = started + 1
    /\ UNCHANGED <<store, now, entry>>

\* AfterDispatch with the adapter's error swallowed: its message is kept as
\* the response and the resolver goes on to persist.
AfterDispatchSwallowed(rec, a) ==
    [rec EXCEPT !.response = IF a.ok THEN a.value.text ELSE a.msg,
                !.chatIdToUse = rec.chatId,
                !.pc = IF Falsy(rec.chatId) THEN "insertChat" ELSE "insertPrompt"]

\* AfterDispatch with one retry of the vendor call after a failure.
AfterDispatchRetried(rec, a) ==
    IF ~a.ok /\ Len(rec.log) < 2
    THEN [Logged(rec, Eff("fetch", TRUE, rec.provider)) EXCEPT !.pc = "fetch"]
    ELSE IF ~a.ok THEN Done(rec, a)
    ELSE [rec EXCEPT !.response = a.value.text,
                     !.chatIdToUse = rec.chatId,
                     !.pc = IF Falsy(rec.chatId) THEN "insertChat" ELSE "insertPrompt"]

\* Lines 143-325: the vendor answers; the adapter yields the text or throws.
\* On success the resolver goes on to the chat insert or the prompt insert.
AfterDispatch(rec, a) ==
    IF ~a.ok THEN Done(rec, a)
    ELSE [rec EXCEPT !.response = a.value.text,
                     !.chatIdToUse = rec.chatId,
                     !.pc = IF Falsy(rec.chatId) THEN "insertChat" ELSE "insertPrompt"]

ProviderResponds(r, D) ==
    /\ req[r].pc = "fetch"
    /\ \E resp \in D.replies :
         req' = [req EXCEPT ![r] =
                   AfterDispatch([req[r] EXCEPT !.reply = resp],
                                 Adapter(req[r].provider, resp))]
    /\ UNCHANGED <<store, now, started, entry>>

\* ------------------------------------------------- the shared persist steps
\* Lines 325-343 and 536-554: insert into chats, title derived from the prompt.
NewChatRow(id, user, title) ==
    [id |-> id, user_id |-> user, title |-> title,
     created_at |-> now, updated_at |-> now]

InsertChat(r) ==
    /\ req[r].pc = "insertChat"
    /\ \/ /\ nextChat < MaxChats
          /\ LET id == ChatId(nextChat + 1)
             IN  /\ chats' = chats \cup
                       {NewChatRow(id, req[r].user, DefaultTitle(req[r].prompt))}
                 /\ req' = [req EXCEPT ![r] =
                       [Logged(req[r], Eff("chats.insert", TRUE, id))
                          EXCEPT !.chatIdToUse = id, !.pc = "insertPrompt"]]
          /\ nextChat' = nextChat + 1
          /\ UNCHANGED <<prompts, nextPrompt, now, started, entry>>
       \/ /\ req' = [req EXCEPT ![r] =
                Done(Logged(req[r], Eff("chats.insert", FALSE, "")),
                     Fail("StoreWrite", "Failed to create chat: " \o DbError))]
          /\ UNCHANGED <<store, now, started, entry>>

\* Lines 345-362 and 556-571: insert into prompts.  prompts.chat_id references
\* chats.id, so the store refuses a chat_id that names no chat.  After the
\* insert the resolver reads the clock for the update that follows.
Metadata(op) == IF op = "getAIResponse" THEN "ip" ELSE "null"

NewPromptRow(id, rec) ==
    [id |-> id, user_id |-> rec.user, chat_id |-> rec.chatIdToUse,
     provider |-> rec.provider, prompt |-> rec.prompt, response |-> rec.response,
     created_at |-> now, metadata |-> Metadata(rec.op)]

\* References with the foreign key not checked on insert.
ReferencesUnchecked(chatId) == TRUE

References(chatId) == \E c \in chats : c.id = chatId

\* Inserted as an upsert keyed by the chat: the row replaces the chat's rows.
InsertedReplacing(rows, row) ==
    {p \in rows : p.chat_id # row.chat_id} \cup {row}

\* .insert(row): the table gains the row, every other row stays.
Inserted(rows, row) == rows \cup {row}

InsertPrompt(r) ==
    /\ req[r].pc = "insertPrompt"
    /\ \/ /\ nextPrompt < MaxPrompts
          /\ References(req[r].chatIdToUse)
          /\ LET id == PromptId(nextPrompt + 1)
             IN  /\ prompts' = Inserted(prompts, NewPromptRow(id, req[r]))
                 /\ req' = [req EXCEPT ![r] =
                       [Logged(req[r], Eff("prompts.insert", TRUE, id))
                          EXCEPT !.data = [t |-> "row", id |-> id, created_at |-> now],
                                 !.ts = now, !.pc = "touch"]]
          /\ nextPrompt' = nextPrompt + 1
          /\ UNCHANGED <<chats, nextChat, now, started, entry>>
       \/ /\ req' = [req EXCEPT ![r] =
                Done(Logged(req[r], Eff("prompts.insert", FALSE, "")),
                     Fail("StoreWrite", "Failed to save prompt: " \o DbError))]
          /\ UNCHANGED <<store, now, started, entry>>

\* Lines 364-394 and 573-586: update chats set updated_at where id = chatIdToUse
\* (the result of the update is not looked at), then, in getAIResponse, the
\* analytics call inside its own try/catch, then the return.
Touched(rows, chatId, ts) ==
    {IF c.id = chatId THEN [c EXCEPT !.updated_at = ts] ELSE c : c \in rows}

\* AIResponse with the chatId argument returned in place of chatIdToUse.
AIResponseArgumentChat(rec) ==
    [t |-> "AIResponse", id |-> rec.data.id, provider |-> rec.provider,
     prompt |-> rec.prompt, response |-> rec.response,
     createdAt |-> rec.data.created_at, chatId |-> rec.chatId]

AIResponse(rec) ==
    [t |-> "AIResponse", id |-> rec.data.id, provider |-> rec.provider,
     prompt |-> rec.prompt, response |-> rec.response,
     createdAt |-> rec.data.created_at, chatId |-> rec.chatIdToUse]

\* Returned with the exception of the analytics call escaping to the caller.
ReturnedTrackedOnly(rec, updated, tracked) ==
    LET a == Logged(rec, Eff("chats.update", updated, rec.chatIdToUse))
        b == Logged(a, Eff("mixpanel.track", tracked, rec.chatIdToUse))
    IN  IF rec.op = "getAIResponse" /\ ~tracked
        THEN Done(b, Fail("Analytics", "mixpanel error"))
        ELSE Done(b, Ok(AIResponse(rec)))

Returned(rec, updated, tracked) ==
    LET a == Logged(rec, Eff("chats.update", updated, rec.chatIdToUse))
        b == IF rec.op = "getAIResponse"
             THEN Logged(a, Eff("mixpanel.track", tracked, rec.chatIdToUse))
             ELSE a
    IN  Done(b, Ok(AIResponse(rec)))

TouchChat(r) ==
    /\ req[r].pc = "touch"
    /\ \E tracked \in (IF req[r].op = "getAIResponse" THEN BOOLEAN ELSE {TRUE}) :
         \/ /\ chats' = Touched(chats, req[r].chatIdToUse, req[r].ts)
            /\ req' = [req EXCEPT ![r] = Returned(req[r], TRUE, tracked)]
         \/ /\ chats' = chats
            /\ req' = [req EXCEPT ![r] = Returned(req[r], FALSE, tracked)]
    /\ UNCHANGED <<prompts, nextChat, nextPrompt, now, started, entry>>

\* --------------------------------------------------------------- savePrompt
\* SavePromptStart with a new chat made for every message.
SavePromptStartNewChat(user, provider, prompt, response, chatId) ==
    LET rec == [Idle EXCEPT !.op = "savePrompt", !.user = user,
                            !.provider = provider, !.prompt = prompt,
                            !.response = response, !.chatId = chatId]
    IN  IF user = NoUser THEN Done(rec, AuthRequired)
        ELSE [rec EXCEPT !.chatIdToUse = chatId, !.pc = "insertChat"]

\* Lines 520-536: persistence only; the response text is an argument.
SavePromptStart(user, provider, prompt, response, chatId) ==
    LET rec == [Idle EXCEPT !.op = "savePrompt", !.user = user,
                            !.provider = provider, !.prompt = prompt,
                            !.response = response, !.chatId = chatId]
    IN  IF user = NoUser THEN Done(rec, AuthRequired)
        ELSE [rec EXCEPT !.chatIdToUse = chatId,
                         !.pc = IF Falsy(chatId) THEN "insertChat" ELSE "insertPrompt"]

SavePrompt(r, D) ==
    /\ CanStart(r, D)
    /\ \E user \in D.users, provider \in D.providers, prompt \in D.prompts,
          response \in D.responses, chatId \in D.chatIds :
         req' = [req EXCEPT ![r] =
                   Arrived(D, SavePromptStart(user, provider, prompt, response, chatId))]
    /\ started' = started + 1
    /\ UNCHANGED <<store, now, entry>>

\* --------------------------------------------------------------- createChat
ChatValue(c) ==
    [t |-> "Chat", id |-> c.id, title |-> c.title,
     createdAt |-> c.created_at, updatedAt |-> c.updated_at]

\* Lines 589-600; the title defaults to "New Chat".
CreateChatStart(user, title) ==
    LET rec == [Idle EXCEPT !.op = "createChat", !.user = user,
                            !.title = IF title = Undefined THEN "New Chat" ELSE title]
    IN  IF user = NoUser THEN Done(rec, AuthRequired)
        ELSE [rec EXCEPT !.pc = "createChat"]

CreateChat(r, D) ==
    /\ CanStart(r, D)
    /\ \E user \in D.users, title \in D.titles \cup {Undefined} :
         req' = [req EXCEPT ![r] =
                   Arrived(D, CreateChatStart(user, title))]
    /\ started' = started + 1
    /\ UNCHANGED <<store, now, entry>>

\* Lines 602-623.
CreateChatInsert(r) ==
    /\ req[r].pc = "createChat"
    /\ \/ /\ nextChat < MaxChats
          /\ LET row == NewChatRow(ChatId(nextChat + 1), req[r].user, req[r].title)
             IN  /\ chats' = chats \cup {row}
                 /\ req' = [req EXCEPT ![r] =
                       Done(Logged(req[r], Eff("chats.insert", TRUE, row.id)),
                            Ok(ChatValue(row)))]
          /\ nextChat' = nextChat + 1
          /\ UNCHANGED <<prompts, nextPrompt, now, started, entry>>
       \/ /\ req' = [req EXCEPT ![r] =
                Done(Logged(req[r], Eff("chats.insert", FALSE, "")),
                     Fail("StoreWrite", "Failed to create chat: " \o DbError))]
          /\ UNCHANGED <<store, now, started, entry>>

\* ---------------------------------------------------------- updateChatTitle
\* Lines 625-636.
UpdateChatTitleStart(user, chatId, title) ==
    LET rec == [Idle EXCEPT !.op = "updateChatTitle", !.user = user,
                            !.chatId = chatId, !.title = title]
    IN  IF user = NoUser THEN Done(rec, AuthRequired)
        ELSE [rec EXCEPT !.pc = "updateTitle"]

UpdateChatTitle(r, D) ==
    /\ CanStart(r, D)
    /\ \E user \in D.users, chatId \in D.chatIds \ {Undefined}, title \in D.titles :
         req' = [req EXCEPT ![r] =
                   Arrived(D, UpdateChatTitleStart(user, chatId, title))]
    /\ started' = started + 1
    /\ UNCHANGED <<store, now, entry>>

\* Owned without the .eq('user_id', user.id) filter.
OwnedByAnyone(rows, chatId, user) == {c \in rows : c.id = chatId}

\* The rows a filter .eq('id', chatId).eq('user_id', user.id) selects.
Owned(rows, chatId, user) == {c \in rows : c.id = chatId /\ c.user_id = user}

\* Lines 638-657: update ... .select('*').single(); no row is an error.
UpdateTitleStore(r) ==
    /\ req[r].pc = "updateTitle"
    /\ \/ /\ Owned(chats, req[r].chatId, req[r].user) # {}
          /\ LET old == CHOOSE c \in Owned(chats, req[r].chatId, req[r].user) : TRUE
                 new == [old EXCEPT !.title = req[r].title]
             IN  /\ chats' = (chats \ {old}) \cup {new}
                 /\ req' = [req EXCEPT ![r] =
                       Done(Logged(req[r], Eff("chats.update", TRUE, old.id)),
                            Ok(ChatValue(new)))]
       \/ /\ chats' = chats
          /\ req' = [req EXCEPT ![r] =
                Done(Logged(req[r], Eff("chats.update", FALSE, "")),
                     Fail("StoreWrite", "Failed to update chat title: " \o DbError))]
    /\ UNCHANGED <<prompts, nextChat, nextPrompt, now, started, entry>>

\* --------------------------------------------------------------- deleteChat
\* DeleteChatStart without the check of context.user.
DeleteChatStartUnchecked(user, chatId) ==
    [Idle EXCEPT !.op = "deleteChat", !.user = user, !.chatId = chatId,
                 !.pc = "deletePrompts"]

\* Lines 659-670.
DeleteChatStart(user, chatId) ==
    LET rec == [Idle EXCEPT !.op = "deleteChat", !.user = user, !.chatId = chatId]
    IN  IF user = NoUser THEN Done(rec, AuthRequired)
        ELSE [rec EXCEPT !.pc = "deletePrompts"]

DeleteChat(r, D) ==
    /\ CanStart(r, D)
    /\ \E user \in D.users, chatId \in D.chatIds \ {Undefined} :
         req' = [req EXCEPT ![r] =
                   Arrived(D, DeleteChatStart(user, chatId))]
    /\ started' = started + 1
    /\ UNCHANGED <<store, now, entry>>

\* PromptsOf without the .eq('chat_id', chatId) filter.
PromptsOfAnyChat(rows, chatId) == rows

\* Lines 672-681: delete from prompts where chat_id = chatId.
PromptsOf(rows, chatId) == {p \in rows : p.chat_id = chatId}

DeletePrompts(r) ==
    /\ req[r].pc = "deletePrompts"
    /\ \/ /\ prompts' = prompts \ PromptsOf(prompts, req[r].chatId)
          /\ req' = [req EXCEPT ![r] =
                [Logged(req[r], Eff("prompts.delete", TRUE, req[r].chatId))
                   EXCEPT !.pc = "deleteChat"]]
       \/ /\ prompts' = prompts
          /\ req' = [req EXCEPT ![r] =
                Done(Logged(req[r], Eff("prompts.delete", FALSE, "")),
                     Fail("StoreWrite", "Failed to delete chat prompts: " \o DbError))]
    /\ UNCHANGED <<chats, nextChat, nextPrompt, now, started, entry>>

\* DeleteChatRow with the error of the chats delete not looked at.
DeleteChatRowUnchecked(r) ==
    /\ req[r].pc = "deleteChat"
    /\ \/ /\ \/ Owned(chats, req[r].chatId, req[r].user) = {}
             \/ PromptsOf(prompts, req[r].chatId) = {}
          /\ chats' = chats \ Owned(chats, req[r].chatId, req[r].user)
          /\ req' = [req EXCEPT ![r] =
                Done(Logged(req[r], Eff("chats.delete", TRUE, req[r].chatId)),
                     Ok([t |-> "Boolean", bool |-> TRUE]))]
       \/ /\ chats' = chats
          /\ req' = [req EXCEPT ![r] =
                Done(Logged(req[r], Eff("chats.delete", FALSE, "")),
                     Ok([t |-> "Boolean", bool |-> TRUE]))]
    /\ UNCHANGED <<prompts, nextChat, nextPrompt, now, started, entry>>

\* Lines 683-696: delete from chats where id = chatId and user_id = user.id.
\* Deleting no row is not an error.  The foreign key refuses to delete a chat
\* that prompts still reference.
DeleteChatRow(r) ==
    /\ req[r].pc = "deleteChat"
    /\ \/ /\ \/ Owned(chats, req[r].chatId, req[r].user) = {}
             \/ PromptsOf(prompts, req[r].chatId) = {}
          /\ chats' = chats \ Owned(chats, req[r].chatId, req[r].user)
          /\ req' = [req EXCEPT ![r] =
                Done(Logged(req[r], Eff("chats.delete", TRUE, req[r].chatId)),
                     Ok([t |-> "Boolean", bool |-> TRUE]))]
       \/ /\ chats' = chats
          /\ req' = [req EXCEPT ![r] =
                Done(Logged(req[r], Eff("chats.delete", FALSE, "")),
                     Fail("StoreWrite", "Failed to delete chat: " \o DbError))]
    /\ UNCHANGED <<prompts, nextChat, nextPrompt, now, started, entry>>

\* ---------------------------------------------------------------- the reads
\* The sequences that list every element of S once.
Orderings(S) ==
    {s \in [1..Cardinality(S) -> S] : \A i, j \in DOMAIN s : i # j => s[i] # s[j]}

\* NewestFirst with ascending: true.
NewestLast(S) ==
    {s \in Orderings(S) :
        \A i \in 1..(Cardinality(S) - 1) : s[i].updated_at <= s[i + 1].updated_at}

\* .order('updated_at', { ascending: false })
NewestFirst(S) ==
    {s \in Orderings(S) :
        \A i \in 1..(Cardinality(S) - 1) : s[i].updated_at >= s[i + 1].updated_at}

\* .order('created_at', { ascending: true })
OldestFirst(S) ==
    {s \in Orderings(S) :
        \A i \in 1..(Cardinality(S) - 1) : s[i].created_at <= s[i + 1].created_at}

\* .order('created_at', { ascending: false }).limit(20)
LatestFirst(S) ==
    {SubSeq(s, 1, IF Len(s) > HistoryLimit THEN HistoryLimit ELSE Len(s)) :
        s \in {q \in Orderings(S) :
                 \A i \in 1..(Cardinality(S) - 1) :
                     q[i].created_at >= q[i + 1].created_at}}

MessageValue(p) ==
    [t |-> "AIResponse", id |-> p.id, provider |-> p.provider, prompt |-> p.prompt,
     response |-> p.response, createdAt |-> p.created_at, chatId |-> p.chat_id]

List(seq) == [t |-> "List", items |-> seq]

\* Lines 397-408, 432-443, 464-475: the three queries start alike.
ReadStart(op, user, chatId) ==
    LET rec == [Idle EXCEPT !.op = op, !.user = user, !.chatId = chatId]
    IN  IF user = NoUser THEN Done(rec, AuthRequired)
        ELSE [rec EXCEPT !.pc = CASE op = "getChats" -> "selectChats"
                                  [] op = "getChatById" -> "selectChat"
                                  [] op = "getPromptHistory" -> "selectHistory"]

GetChats(r, D) ==
    /\ CanStart(r, D)
    /\ \E user \in D.users :
         req' = [req EXCEPT ![r] =
                   Arrived(D, ReadStart("getChats", user, Undefined))]
    /\ started' = started + 1
    /\ UNCHANGED <<store, now, entry>>

GetChatById(r, D) ==
    /\ CanStart(r, D)
    /\ \E user \in D.users, chatId \in D.chatIds \ {Undefined} :
         req' = [req EXCEPT ![r] =
                   Arrived(D, ReadStart("getChatById", user, chatId))]
    /\ started' = started + 1
    /\ UNCHANGED <<store, now, entry>>

GetPromptHistory(r, D) ==
    /\ CanStart(r, D)
    /\ \E user \in D.users :
         req' = [req EXCEPT ![r] =
                   Arrived(D, ReadStart("getPromptHistory", user, Undefined))]
    /\ started' = started + 1
    /\ UNCHANGED <<store, now, entry>>

\* ChatsOfUser without the .eq('user_id', user.id) filter.
ChatsOfAnyUser(rows, user) == rows

\* Lines 445-462: select from chats where user_id = user.id, newest first.
ChatsOfUser(rows, user) == {c \in rows : c.user_id = user}

SelectChats(r) ==
    /\ req[r].pc = "selectChats"
    /\ \/ \E s \in NewestFirst(ChatsOfUser(chats, req[r].user)) :
            req' = [req EXCEPT ![r] =
               Done(Logged(req[r], Eff("chats.select", TRUE, "")),
                    Ok(List([i \in DOMAIN s |-> ChatValue(s[i])])))]
       \/ req' = [req EXCEPT ![r] =
             Done(Logged(req[r], Eff("chats.select", FALSE, "")),
                  Fail("StoreRead", "Failed to fetch chats: " \o DbError))]
    /\ UNCHANGED <<store, now, started, entry>>

\* Lines 477-488: the chat, by id and owner; .single() fails on no row.
SelectChat(r) ==
    /\ req[r].pc = "selectChat"
    /\ \/ /\ Owned(chats, req[r].chatId, req[r].user) # {}
          /\ LET c == CHOOSE c \in Owned(chats, req[r].chatId, req[r].user) : TRUE
             IN  req' = [req EXCEPT ![r] =
                    [Logged(req[r], Eff("chats.select", TRUE, c.id))
                       EXCEPT !.data = ChatValue(c), !.pc = "selectMessages"]]
       \/ req' = [req EXCEPT ![r] =
             Done(Logged(req[r], Eff("chats.select", FALSE, "")),
                  Fail("StoreRead", "Failed to fetch chat: " \o DbError))]
    /\ UNCHANGED <<store, now, started, entry>>

\* Lines 490-516: the messages of the chat, by chat_id alone, oldest first.
SelectMessages(r) ==
    /\ req[r].pc = "selectMessages"
    /\ \/ \E s \in OldestFirst(PromptsOf(prompts, req[r].chatId)) :
            req' = [req EXCEPT ![r] =
               Done(Logged(req[r], Eff("prompts.select", TRUE, req[r].chatId)),
                    Ok([t |-> "ChatWithMessages", chat |-> req[r].data,
                        messages |-> [i \in DOMAIN s |-> MessageValue(s[i])]]))]
       \/ req' = [req EXCEPT ![r] =
             Done(Logged(req[r], Eff("prompts.select", FALSE, "")),
                  Fail("StoreRead", "Failed to fetch chat messages: " \o DbError))]
    /\ UNCHANGED <<store, now, started, entry>>

\* Lines 410-430: the caller's prompts, latest first, at most 20.
PromptsOfUser(rows, user) == {p \in rows : p.user_id = user}

SelectHistory(r) ==
    /\ req[r].pc = "selectHistory"
    /\ \/ \E s \in LatestFirst(PromptsOfUser(prompts, req[r].user)) :
            req' = [req EXCEPT ![r] =
               Done(Logged(req[r], Eff("prompts.select", TRUE, "")),
                    Ok(List([i \in DOMAIN s |-> MessageValue(s[i])])))]
       \/ req' = [req EXCEPT ![r] =
             Done(Logged(req[r], Eff("prompts.select", FALSE, "")),
                  Fail("StoreRead", "Failed to fetch prompt history: " \o DbError))]
    /\ UNCHANGED <<store, now, started, entry>>

\* ---------------------------------------------------------------- context
\* The sessions the identity provider knows: token -> user.
Sessions == [t \in {"t1", "t2"} |-> IF t = "t1" THEN "u1" ELSE "u2"]

\* What supabase.auth.getUser(token) can do: throw, or resolve to
\* { data, error }.  It names a user only for the token of a session.
GetUserThrows == [t |-> "throw", data |-> "null", user |-> NoUser, error |-> "null"]
GetUserResult(data, user, error) ==
    [t |-> "result", data |-> data, user |-> user, error |-> error]

GetUserOutcomes(token) ==
    {GetUserThrows,
     GetUserResult("null", NoUser, "AuthApiError"),
     GetUserResult("object", NoUser, "AuthApiError"),
     GetUserResult("object", NoUser, "null")}
      \cup (IF token \in DOMAIN Sessions
            THEN {GetUserResult("object", Sessions[token], "null"),
                  GetUserResult("object", Sessions[token], "AuthApiError")}
            ELSE {})

\* req.headers.authorization is absent or empty: !authHeader
NoHeader(header) == header \in {Undefined, ""}

\* Line 720: authHeader.replace('Bearer ', '')
Token(header) == Replace(header, "Bearer ", "")

ContextValue(threw, user) == [t |-> "context", threw |-> threw, user |-> user]

\* Context without the try/catch around the getUser call.
ContextUncaught(header, idp) ==
    IF NoHeader(header) THEN ContextValue(FALSE, NoUser)
    ELSE IF idp.t = "throw" THEN ContextValue(TRUE, NoUser)
    ELSE IF idp.error # "null" \/ idp.data = "null" \/ idp.user = NoUser
      THEN ContextValue(FALSE, NoUser)
    ELSE ContextValue(FALSE, idp.user)

\* Lines 711-738: the context function of the server.
Context(header, idp) ==
    IF NoHeader(header) THEN ContextValue(FALSE, NoUser)
    ELSE IF idp.t = "throw" THEN ContextValue(FALSE, NoUser)
    ELSE IF idp.error # "null" \/ idp.data = "null" \/ idp.user = NoUser
      THEN ContextValue(FALSE, NoUser)
    ELSE ContextValue(FALSE, idp.user)

Headers == {Undefined, "", "Bearer t1", "Bearer t2", "Bearer expired", "t1"}

\* A request arrives; the context function reads its Authorization header
\* and, when there is one, calls the identity provider.
Arrive(r, D) ==
    /\ CanStart(r, D)
    /\ \E header \in Headers :
         req' = [req EXCEPT ![r] =
                   IF NoHeader(header)
                   THEN [Idle EXCEPT !.header = header,
                                     !.context = Context(header, NoValue),
                                     !.pc = "resolve"]
                   ELSE [Idle EXCEPT !.header = header, !.pc = "getUser"]]
    /\ started' = started + 1
    /\ UNCHANGED <<store, now, entry>>

GetUser(r) ==
    /\ req[r].pc = "getUser"
    /\ \E idp \in GetUserOutcomes(Token(req[r].header)) :
         req' = [req EXCEPT ![r] =
                   [req[r] EXCEPT !.idp = idp,
                                  !.context = Context(req[r].header, idp),
                                  !.pc = "resolve"]]
    /\ UNCHANGED <<store, now, started, entry>>

\* The operation runs with context.user; a context function that threw ends
\* the request before any resolver.
Resolve(r, D) ==
    /\ req[r].pc = "resolve"
    /\ \E start \in {CreateChatStart(req[r].context.user, Undefined),
                      ReadStart("getChats", req[r].context.user, Undefined)} :
         req' = [req EXCEPT ![r] =
                   [(IF req[r].context.threw
                     THEN Done(Idle, Fail("Context", "Context creation failed"))
                     ELSE Arrived(D, start))
                      EXCEPT !.header = req[r].header, !.idp = req[r].idp,
                             !.context = req[r].context]]
    /\ UNCHANGED <<store, now, started, entry>>

\* ---------------------------------------------------------------- handler
\* Lines 755-770: a call of handler(req, res).  OPTIONS is answered at once.
\* Otherwise, when apolloServerHandler is not set, apolloServer.start() is
\* called and awaited; when it is set, the request goes to it.
Handler(r) ==
    /\ handling[r].pc = "idle"
    /\ started < MaxHandled
    /\ started' = started + 1
    /\ \E method \in {"OPTIONS", "POST"} :
         IF method = "OPTIONS"
         THEN /\ handling' = [handling EXCEPT ![r] =
                     [pc |-> "done", method |-> method, handle |-> NoHandler,
                      status |-> 200]]
              /\ UNCHANGED <<apolloServer, apolloServerHandler>>
         ELSE IF apolloServerHandler = NoHandler
         THEN /\ handling' = [handling EXCEPT ![r] =
                     [pc |-> "start", method |-> method, handle |-> NoHandler,
                      status |-> 0]]
              /\ apolloServer' = [apolloServer EXCEPT !.starts = @ + 1]
              /\ UNCHANGED apolloServerHandler
         ELSE /\ handling' = [handling EXCEPT ![r] =
                     [pc |-> "done", method |-> method,
                      handle |-> apolloServerHandler, status |-> 200]]
              /\ UNCHANGED <<apolloServer, apolloServerHandler>>
    /\ UNCHANGED <<store, now, req>>

\* Lines 768-773: start() has resolved; createHandler() makes a new handle,
\* which is assigned to apolloServerHandler and serves the request.
StartResolves(r) ==
    /\ handling[r].pc = "start"
    /\ apolloServer' = [apolloServer EXCEPT !.phase = "started",
                                            !.handlers = @ + 1]
    /\ apolloServerHandler' = apolloServer.handlers + 1
    /\ handling' = [handling EXCEPT ![r] =
            [@ EXCEPT !.pc = "done", !.handle = apolloServer.handlers + 1,
                      !.status = 200]]
    /\ UNCHANGED <<store, now, req, started>>

\* Lines 774-777: start() called on a server that another call has already
\* started may reject; the catch answers 500.
StartRejects(r) ==
    /\ handling[r].pc = "start"
    /\ apolloServer.phase = "started"
    /\ handling' = [handling EXCEPT ![r] = [@ EXCEPT !.pc = "done", !.status = 500]]
    /\ UNCHANGED <<store, now, req, started, apolloServer, apolloServerHandler>>

\* The response has been sent.
Handled(r) ==
    /\ handling[r].pc = "done"
    /\ handling' = [handling EXCEPT ![r] = NotHandling]
    /\ UNCHANGED <<store, now, req, started, apolloServer, apolloServerHandler>>

\* ------------------------------------------------------------- the inputs
P45 == "abcdefghijklmnopqrstuvwxyzABCDEFGHIJKLMNOPQRS"
P31 == SubSeq(P45, 1, 31)
P30 == SubSeq(P45, 1, 30)
P10 == "0123456789"

Statuses == {200, 500}

AllReplies ==
    {FetchThrows}
      \cup {Reply(st, TextBody(t)) : st \in Statuses, t \in {"", " ", "rate limited"}}
      \cup {Reply(200, JsonBody(e, g)) : e \in ErrorMembers, g \in GenShapes}

\* Requests served one at a time by one user or by nobody, over every
\* provider and every vendor reply.
Dispatch ==
    [inflight |-> 1,
     requests |-> MaxDispatched,
     users |-> {"u1", NoUser},
     providers |-> Supported \cup {"unknown-vendor"},
     prompts |-> {P10},
     responses |-> {GeneratedText},
     replies |-> AllReplies,
     chatIds |-> {Undefined, EmptyId, ChatId(1)},
     titles |-> {"Renamed"},
     keyed |-> BOOLEAN]

\* Two requests of two users in flight, interleaved at their awaits while the
\* clock advances, over one provider that answers or fails.
Concurrent ==
    [inflight |-> 2,
     requests |-> MaxInterleaved,
     users |-> Users,
     providers |-> {"openai"},
     prompts |-> {P10},
     responses |-> {GeneratedText},
     replies |-> {Reply(200, JsonBody("absent", "text")),
                  Reply(500, TextBody("rate limited"))},
     chatIds |-> {Undefined} \cup AllChatIds,
     titles |-> {"Renamed"},
     keyed |-> {TRUE}]

Step(r, D) ==
    \/ GetAIResponse(r, D)
    \/ ProviderResponds(r, D)
    \/ SavePrompt(r, D)
    \/ InsertChat(r)
    \/ InsertPrompt(r)
    \/ TouchChat(r)
    \/ CreateChat(r, D)
    \/ CreateChatInsert(r)
    \/ UpdateChatTitle(r, D)
    \/ UpdateTitleStore(r)
    \/ DeleteChat(r, D)
    \/ DeletePrompts(r)
    \/ DeleteChatRow(r)
    \/ GetChats(r, D)
    \/ SelectChats(r)
    \/ GetChatById(r, D)
    \/ SelectChat(r)
    \/ SelectMessages(r)
    \/ GetPromptHistory(r, D)
    \/ SelectHistory(r)
    \/ Respond(r)

Next == \E r \in Reqs : Step(r, Dispatch)
Spec == Init /\ [][Next]_vars

\* Requests of two users and of nobody, served one at a time.
Stored ==
    [Concurrent EXCEPT !.inflight = 1, !.requests = MaxStored,
                       !.users = Users \cup {NoUser}]

NextStore == \E r \in Reqs : Step(r, Stored)
SpecStore == Init /\ [][NextStore]_vars

NextConc == \E r \in Reqs : Step(r, Concurrent)
SpecConc == Init /\ [][NextConc]_vars

\* The requests that write timestamps, interleaved while the clock advances.
Appending(r, D) ==
    \/ GetAIResponse(r, D)
    \/ ProviderResponds(r, D)
    \/ SavePrompt(r, D)
    \/ InsertChat(r)
    \/ InsertPrompt(r)
    \/ TouchChat(r)
    \/ Respond(r)

Timed == [Concurrent EXCEPT !.requests = MaxTimed, !.users = {"u1"}]

\* The requests that create a chat implicitly, served one at a time, over
\* prompts on both sides of the title limit.
Titled ==
    [Concurrent EXCEPT !.inflight = 1, !.requests = MaxTitled,
                       !.users = {"u1"},
                       !.prompts = {"", P10, P30, P31, P45}]

NextTitles == \E r \in Reqs : Appending(r, Titled)
SpecTitles == Init /\ [][NextTitles]_vars

NextClock == Tick \/ \E r \in Reqs : Appending(r, Timed)
SpecClock == Init /\ [][NextClock]_vars

\* The same requests interleaved at their awaits, the clock standing still.
NextAppend == \E r \in Reqs : Appending(r, Timed)
SpecAppend == Init /\ [][NextAppend]_vars

\* getAIResponse and savePrompt of one user, one request at a time, while
\* the clock advances.
Paired == [Timed EXCEPT !.inflight = 1, !.requests = MaxPaired]

NextPair == Tick \/ \E r \in Reqs : Appending(r, Paired)
SpecPair == Init /\ [][NextPair]_vars

\* Chats filled by two users and read back by id, one request at a time,
\* while the clock advances.
Reading(r, D) ==
    \/ SavePrompt(r, D)
    \/ InsertChat(r)
    \/ InsertPrompt(r)
    \/ TouchChat(r)
    \/ GetChatById(r, D)
    \/ SelectChat(r)
    \/ SelectMessages(r)
    \/ Respond(r)

Read == [Concurrent EXCEPT !.inflight = 1, !.requests = MaxRead]

NextRead == Tick \/ \E r \in Reqs : Reading(r, Read)
SpecRead == Init /\ [][NextRead]_vars

\* Chats made and appended to by two users and listed, one request at a
\* time, while the clock advances.
Listing(r, D) ==
    \/ SavePrompt(r, D)
    \/ InsertChat(r)
    \/ InsertPrompt(r)
    \/ TouchChat(r)
    \/ GetChats(r, D)
    \/ SelectChats(r)
    \/ Respond(r)

Listed ==
    [Concurrent EXCEPT !.inflight = 1, !.requests = MaxListed,
                       !.chatIds = {Undefined, ChatId(1)}]

NextList == Tick \/ \E r \in Reqs : Listing(r, Listed)
SpecList == Init /\ [][NextList]_vars

\* Requests that come with an Authorization header or without one, served
\* one at a time: the context function, then a resolver.
Authenticating(r, D) ==
    \/ Arrive(r, D)
    \/ GetUser(r)
    \/ Resolve(r, D)
    \/ CreateChatInsert(r)
    \/ SelectChats(r)
    \/ Respond(r)

Authenticated == [Concurrent EXCEPT !.inflight = 1, !.requests = MaxAuthenticated]

NextAuth == \E r \in Reqs : Authenticating(r, Authenticated)
SpecAuth == Init /\ [][NextAuth]_vars

\* Calls of handler(req, res) that overlap at the await of start().
NextHandler ==
    \E r \in Reqs :
        \/ Handler(r)
        \/ StartResolves(r)
        \/ StartRejects(r)
        \/ Handled(r)

SpecHandler == Init /\ [][NextHandler]_vars

\* =================================================================== claims
\* A request served alone has ended and is of the given operation.
Ended(r, op) == req[r].pc = "done" /\ req[r].op = op

\* The tables are as the request found them.
SameTables(r) ==
    /\ chats = req[r].before.chats
    /\ prompts = req[r].before.prompts

\* The request made no call to the store.
NoStoreCall(r) == \A i \in DOMAIN req[r].log : req[r].log[i].what = "fetch"

\* The throw sites of the four vendor branches.
ProviderKinds ==
    {"NoKey", "Fetch", "Http", "Empty", "Parse", "Application", "Type", "Structure"}

\* C1: an authenticated getAIResponse without chatId (undefined or "") whose
\* provider call succeeded and which returns: the tables hold every row they
\* held before plus exactly one new chat and exactly one new message, the
\* message's chat_id is the new chat's id, and so is the returned chatId.
C1_OneChatOneMessage ==
    \A r \in Reqs :
        ( /\ Ended(r, "getAIResponse")
          /\ req[r].user # NoUser
          /\ Falsy(req[r].chatId)
          /\ req[r].result.ok )
        =>
        LET oldChats == {c.id : c \in req[r].before.chats}
            oldPrompts == {p.id : p \in req[r].before.prompts}
            newChats == {c \in chats : c.id \notin oldChats}
            newPrompts == {p \in prompts : p.id \notin oldPrompts}
        IN  /\ req[r].before.chats \subseteq chats
            /\ req[r].before.prompts \subseteq prompts
            /\ Cardinality(chats) = Cardinality(req[r].before.chats) + 1
            /\ Cardinality(prompts) = Cardinality(req[r].before.prompts) + 1
            /\ Cardinality(newChats) = 1
            /\ Cardinality(newPrompts) = 1
            /\ \A c \in newChats, p \in newPrompts :
                 /\ p.chat_id = c.id
                 /\ c.user_id = req[r].user
                 /\ p.user_id = req[r].user
                 /\ req[r].result.value.chatId = c.id
                 /\ req[r].result.value.id = p.id

C1_Witness ==
    \E r \in Reqs :
        /\ Ended(r, "getAIResponse")
        /\ req[r].chatId = Undefined
        /\ req[r].result.ok
        /\ req[r].before.chats # {}
        /\ req[r].before.prompts # {}

\* The vendor replies that are failures for every one of the four vendors:
\* no response, a non-success status, a body that is not JSON, an error
\* object in the body, no text at the vendor's path.
C2_VendorFailure(reply) ==
    \/ reply.net = "throw"
    \/ reply.net = "ok" /\ ~HttpOk(reply.status)
    \/ reply.net = "ok" /\ reply.body.kind = "text"
    \/ reply.net = "ok" /\ reply.body.error \in {"string", "object"}
    \/ reply.net = "ok" /\ reply.body.gen \in {"noarr", "emptyarr", "nomsg", "notext", "nonstring"}

\* C2: a getAIResponse whose provider call failed (the vendor's reply is a
\* failure, or the vendor branch threw) ends in failure, has made no call to
\* the store, and leaves both tables exactly as it found them.
C2_ProviderFailureKeepsStore ==
    \A r \in Reqs :
        ( /\ Ended(r, "getAIResponse")
          /\ req[r].user # NoUser
          /\ req[r].provider \in Supported
          /\ \/ req[r].result.kind \in ProviderKinds
             \/ C2_VendorFailure(req[r].reply) )
        =>
        /\ ~req[r].result.ok
        /\ req[r].result.kind \in ProviderKinds
        /\ NoStoreCall(r)
        /\ SameTables(r)

C2_Witness ==
    \E r \in Reqs :
        /\ Ended(r, "getAIResponse")
        /\ req[r].provider = "mistral"
        /\ req[r].reply.net = "throw"
        /\ req[r].chatId = ChatId(1)
        /\ chats # {}
        /\ prompts # {}

\* C3: the step in which deleteChat(chatId) returns true leaves no message
\* row with chat_id = chatId; and a deleteChat whose message deletion failed
\* ends there, with no delete issued on chats and the chats table untouched.
C3_DeleteChatPostcondition ==
    [][\A r \in Reqs :
          /\ ( /\ req[r].pc = "deleteChat"
               /\ req'[r].pc = "done"
               /\ req'[r].result.ok )
             => PromptsOf(prompts', req[r].chatId) = {}
          /\ ( /\ req[r].pc = "deletePrompts"
               /\ req'[r].pc = "done" )
             => /\ ~req'[r].result.ok
                /\ chats' = chats
                /\ \A i \in DOMAIN req'[r].log : req'[r].log[i].what # "chats.delete"
      ]_vars

\* C4: every chat that getChats returns to caller U is a row of chats whose
\* user_id is U; no row owned by another user is among them.
C4_GetChatsOwnChatsOnly ==
    \A r \in Reqs :
        (Ended(r, "getChats") /\ req[r].result.ok)
        =>
        LET items == req[r].result.value.items
        IN  /\ \A i \in DOMAIN items :
                 \E c \in chats : c.id = items[i].id /\ c.user_id = req[r].user
            /\ \A c \in chats :
                 c.user_id # req[r].user
                   => \A i \in DOMAIN items : items[i].id # c.id

C4_Witness ==
    \E r \in Reqs :
        /\ Ended(r, "getChats")
        /\ req[r].result.ok
        /\ req[r].result.value.items # <<>>
        /\ \E c \in chats : c.user_id \in Users /\ c.user_id # req[r].user

\* C5: the chat that getAIResponse or savePrompt creates when chatId is
\* absent is titled with the prompt itself when the prompt has at most 30
\* characters, and with its first 30 characters followed by "..." (33
\* characters in all) when it has more.
C5_DefaultTitle ==
    \A r \in Reqs :
        ( /\ req[r].op \in {"getAIResponse", "savePrompt"}
          /\ req[r].pc \in {"insertPrompt", "touch", "done"}
          /\ \E i \in DOMAIN req[r].log :
               req[r].log[i].what = "chats.insert" /\ req[r].log[i].ok )
        =>
        \E c \in chats :
            /\ c.id = req[r].chatIdToUse
            /\ Len(req[r].prompt) <= 30 => c.title = req[r].prompt
            /\ Len(req[r].prompt) > 30 =>
                 /\ Len(c.title) = 33
                 /\ SubSeq(c.title, 1, 30) = SubSeq(req[r].prompt, 1, 30)
                 /\ SubSeq(c.title, 31, 33) = "..."

C5_Witness ==
    \E r \in Reqs :
        /\ Ended(r, "savePrompt")
        /\ req[r].result.ok
        /\ Len(req[r].prompt) = 45
        /\ \E c \in chats : c.id = req[r].chatIdToUse /\ Len(c.title) = 33

\* C6: no step lowers the updated_at of a chat, and updated_at never falls
\* below created_at.
C6_UpdatedAtNeverDecreases ==
    [][\A c \in chats, d \in chats' :
          d.id = c.id => /\ d.updated_at >= c.updated_at
                         /\ d.updated_at >= d.created_at
      ]_vars

\* C7: a request of any of the eight operations made with the anonymous
\* identity ends at once with the authentication error, has made no outbound
\* call and no call to the store, and leaves both tables as it found them.
C7_AnonymousRejected ==
    \A r \in Reqs :
        (req[r].pc # "idle" /\ req[r].user = NoUser)
        =>
        /\ req[r].pc = "done"
        /\ req[r].result = AuthRequired
        /\ req[r].log = <<>>
        /\ SameTables(r)

C7_Witness ==
    \E r \in Reqs :
        /\ Ended(r, "deleteChat")
        /\ req[r].user = NoUser
        /\ req[r].chatId = ChatId(1)
        /\ \E c \in chats : c.id = ChatId(1)
        /\ prompts # {}

\* C8: an authenticated getAIResponse whose provider is none of the four
\* ends at once with the error that names the provider as not supported, with
\* no outbound call and no call to the store made, and both tables as found.
C8_UnsupportedProviderRejected ==
    \A r \in Reqs :
        ( /\ req[r].pc # "idle"
          /\ req[r].op = "getAIResponse"
          /\ req[r].user # NoUser
          /\ req[r].provider \notin {"openai", "gemini", "anthropic", "mistral"} )
        =>
        /\ req[r].pc = "done"
        /\ ~req[r].result.ok
        /\ req[r].result.kind = "UnsupportedProvider"
        /\ Contains(req[r].result.msg, req[r].provider)
        /\ Contains(req[r].result.msg, "not supported")
        /\ req[r].log = <<>>
        /\ SameTables(r)

C8_Witness ==
    \E r \in Reqs :
        /\ Ended(r, "getAIResponse")
        /\ req[r].user = "u1"
        /\ req[r].provider = "unknown-vendor"
        /\ chats # {}

\* C9: when the vendor answers with a non-success status s and body b,
\* getAIResponse fails, the message of the error contains s and contains b,
\* and both tables are as the request found them; for each of the four
\* vendors.
C9_HttpErrorReported ==
    \A r \in Reqs :
        ( /\ Ended(r, "getAIResponse")
          /\ req[r].reply.net = "ok"
          /\ ~(req[r].reply.status >= 200 /\ req[r].reply.status <= 299) )
        =>
        /\ ~req[r].result.ok
        /\ req[r].result.kind = "Http"
        /\ Contains(req[r].result.msg, ToString(req[r].reply.status))
        /\ Contains(req[r].result.msg, req[r].reply.body.text)
        /\ NoStoreCall(r)
        /\ SameTables(r)

C9_Witness ==
    \E r \in Reqs :
        /\ Ended(r, "getAIResponse")
        /\ req[r].provider = "anthropic"
        /\ req[r].reply = Reply(500, TextBody("rate limited"))
        /\ Contains(req[r].result.msg, "500")
        /\ Contains(req[r].result.msg, "rate limited")
        /\ chats # {}

\* C10: when the vendor answers 200 with an empty body, getAIResponse fails
\* at the reading of the body (the empty-body check or the JSON parse: a
\* malformed response, neither a success nor an HTTP or application error),
\* and both tables are as the request found them; for each of the four
\* vendors.
C10_EmptyBodyMalformed ==
    \A r \in Reqs :
        ( /\ Ended(r, "getAIResponse")
          /\ req[r].reply = Reply(200, TextBody("")) )
        =>
        /\ ~req[r].result.ok
        /\ req[r].result.kind \in {"Empty", "Parse"}
        /\ NoStoreCall(r)
        /\ SameTables(r)

C10_Witness ==
    \E r \in Reqs :
        /\ Ended(r, "getAIResponse")
        /\ req[r].provider = "gemini"
        /\ req[r].reply = Reply(200, TextBody(""))
        /\ chats # {}

\* C11: every row of prompts names, by its chat_id, a chat whose owner
\* (user_id) is the user_id of the prompt row itself.
C11_MessageOwnerIsChatOwner ==
    \A p \in prompts :
        \E c \in chats : c.id = p.chat_id /\ c.user_id = p.user_id

\* C12: a deleteChat(chatId) of an authenticated caller who owns no chat with
\* that id (the chat is another user's, or there is none) ends in failure,
\* never with true, and leaves both tables as it found them: the chat row
\* and every message row of that chat remain.
C12_DeleteChatNotOwner ==
    \A r \in Reqs :
        ( /\ Ended(r, "deleteChat")
          /\ req[r].user # NoUser
          /\ Owned(req[r].before.chats, req[r].chatId, req[r].user) = {} )
        =>
        /\ ~req[r].result.ok
        /\ SameTables(r)

\* C13: getChatById(chatId) of caller U fails when U owns no chat with that
\* id; when U owns one it fails only if a read of the store failed, and what
\* it returns is that chat together with exactly the rows of prompts whose
\* chat_id is chatId, each once, createdAt ascending.  Neither the chat nor
\* any returned message belongs to a chat that another user owns.
C13_GetChatById ==
    \A r \in Reqs :
        (Ended(r, "getChatById") /\ req[r].user # NoUser)
        =>
        LET own == Owned(chats, req[r].chatId, req[r].user)
            rows == PromptsOf(prompts, req[r].chatId)
        IN  /\ own = {} => ~req[r].result.ok
            /\ (own # {} /\ ~req[r].result.ok)
                 => \E i \in DOMAIN req[r].log : ~req[r].log[i].ok
            /\ req[r].result.ok =>
                 LET m == req[r].result.value.messages
                 IN  /\ \E c \in own : req[r].result.value.chat = ChatValue(c)
                     /\ {m[i] : i \in DOMAIN m} = {MessageValue(p) : p \in rows}
                     /\ Len(m) = Cardinality(rows)
                     /\ \A i \in 1..(Len(m) - 1) : m[i].createdAt <= m[i + 1].createdAt
                     /\ \A c \in chats :
                          c.user_id # req[r].user
                            => /\ req[r].result.value.chat.id # c.id
                               /\ \A i \in DOMAIN m : m[i].chatId # c.id

C13_Witness ==
    \E r \in Reqs :
        /\ Ended(r, "getChatById")
        /\ req[r].result.ok
        /\ Len(req[r].result.value.messages) = 2
        /\ req[r].result.value.messages[1].createdAt
             < req[r].result.value.messages[2].createdAt
        /\ req[r].result.value.messages[1].id = PromptId(1)

\* The request's update of chats.updated_at took effect.
ChatTouched(r) ==
    \E i \in DOMAIN req[r].log :
        req[r].log[i].what = "chats.update" /\ req[r].log[i].ok

\* The rows of prompts that the request, served alone, has added.
MessagesAdded(r) == prompts \ req[r].before.prompts

\* C14: when a getAIResponse or savePrompt has ended, either it has added
\* its message row and its update of the chat's updated_at took effect, or
\* it has added no message row and made no such update: never the one
\* without the other.
C14_InsertAndTouchAtomic ==
    \A r \in Reqs :
        ( /\ req[r].pc = "done"
          /\ req[r].op \in {"getAIResponse", "savePrompt"}
          /\ req[r].user # NoUser )
        =>
        (MessagesAdded(r) # {} <=> ChatTouched(r))

\* C15: an authenticated getAIResponse whose chatId names no chat of the
\* caller (there is no such chat, or it is another user's) makes no outbound
\* call to a vendor, adds no message row, and ends in failure.
C15_OwnershipBeforeDispatch ==
    \A r \in Reqs :
        ( /\ req[r].pc # "idle"
          /\ req[r].op = "getAIResponse"
          /\ req[r].user # NoUser
          /\ ~Falsy(req[r].chatId)
          /\ Owned(req[r].before.chats, req[r].chatId, req[r].user) = {} )
        =>
        /\ \A i \in DOMAIN req[r].log : req[r].log[i].what # "fetch"
        /\ MessagesAdded(r) = {}
        /\ req[r].pc = "done" => ~req[r].result.ok

\* C16: the step in which a getAIResponse whose provider call, inserts and
\* update of updated_at all succeeded returns, has the same outcome whether
\* the analytics call succeeded or threw: the result is the persisted
\* message with the chat's id, prompts is left as it is and chats differs
\* only by the update of updated_at.
C16_AnalyticsNeverChangesOutcome ==
    [][\A r \in Reqs :
          ( /\ req[r].pc = "touch"
            /\ req[r].op = "getAIResponse"
            /\ req'[r].pc = "done"
            /\ ChatTouched(r)' )
          =>
          /\ req'[r].log[Len(req'[r].log)].what = "mixpanel.track"
          /\ req'[r].result.ok
          /\ req'[r].result.value.chatId = req[r].chatIdToUse
          /\ \E p \in prompts' :
               /\ p.chat_id = req[r].chatIdToUse
               /\ MessageValue(p) = req'[r].result.value
          /\ prompts' = prompts
          /\ chats' = Touched(chats, req[r].chatIdToUse, req[r].ts)
      ]_vars

C16_Witness ==
    \E r \in Reqs :
        /\ Ended(r, "getAIResponse")
        /\ ChatTouched(r)
        /\ req[r].result.ok
        /\ \E i \in DOMAIN req[r].log :
             req[r].log[i].what = "mixpanel.track" /\ ~req[r].log[i].ok
        /\ \E p \in prompts : p.id = req[r].result.value.id

\* C17: a getAIResponse one of whose store writes after the provider call
\* failed (the chat insert, the prompt insert, the update of updated_at)
\* ends in an error, never in success.
C17_StoreWriteFailureReported ==
    \A r \in Reqs :
        ( /\ Ended(r, "getAIResponse")
          /\ \E i \in DOMAIN req[r].log :
               /\ req[r].log[i].what \in {"chats.insert", "prompts.insert", "chats.update"}
               /\ ~req[r].log[i].ok )
        =>
        ~req[r].result.ok

\* C18: the context function never throws.  It yields user = null when the
\* Authorization header is absent, when the token is that of no session,
\* when the identity provider's result carries an error or no user, and when
\* the call to the identity provider threw; the user it yields otherwise is
\* the one the identity provider returned without error.
C18_ContextNeverThrows ==
    \A r \in Reqs :
        req[r].context # NoValue
        =>
        LET ctx == req[r].context
            idp == req[r].idp
        IN  /\ ~ctx.threw
            /\ ( \/ req[r].header = Undefined
                 \/ Token(req[r].header) \notin DOMAIN Sessions
                 \/ idp.t = "throw"
                 \/ idp.error # "null"
                 \/ idp.user = NoUser )
               => ctx.user = NoUser
            /\ ctx.user # NoUser
               => /\ req[r].header # Undefined
                  /\ idp.t = "result"
                  /\ idp.error = "null"
                  /\ idp.user = ctx.user
                  /\ Sessions[Token(req[r].header)] = ctx.user
            /\ req[r].pc = "done" /\ ctx.user = NoUser
               => req[r].result = AuthRequired

C18_Witness ==
    \E r \in Reqs :
        /\ req[r].pc = "done"
        /\ req[r].header = "Bearer t1"
        /\ req[r].idp.t = "throw"
        /\ req[r].context = ContextValue(FALSE, NoUser)
        /\ req[r].result = AuthRequired
        /\ \E c \in chats : c.user_id = "u1"

\* C19: every row of chats or prompts that a step of a request of user U
\* removes, changes or adds is a row whose user_id is U: no operation
\* touches a row that another user owns.
C19_NoWriteToOtherUsersRows ==
    [][\A r \in Reqs :
          (req[r].pc # "idle" /\ req'[r] # req[r])
          =>
          /\ \A c \in (chats \ chats') \cup (chats' \ chats) :
               c.user_id = req[r].user
          /\ \A p \in (prompts \ prompts') \cup (prompts' \ prompts) :
               p.user_id = req[r].user
      ]_vars

\* C20: apolloServer.start() is called at most once and createHandler() at
\* most once, however the calls of handler overlap, and every request that
\* is not a preflight is answered by the one handle made.
C20_InitializedOnce ==
    /\ apolloServer.starts <= 1
    /\ apolloServer.handlers <= 1
    /\ \A r \in Reqs :
         (handling[r].pc = "done" /\ handling[r].method = "POST")
         => /\ handling[r].status = 200
            /\ handling[r].handle = 1
            /\ handling[r].handle = apolloServerHandler

\* The requests that have ended in success with a message of the chat.
Appended(chatId) ==
    {r \in Reqs : /\ req[r].pc = "done"
                  /\ req[r].op \in {"getAIResponse", "savePrompt"}
                  /\ req[r].result.ok
                  /\ req[r].result.value.chatId = chatId}

\* C21: when getAIResponse and savePrompt requests that append to one chat
\* interleave, the message row of every request that has ended in success
\* is in prompts with the request's prompt and response, two requests never
\* share a row, and the chat holds at least as many rows as requests have
\* appended to it.
C21_ConcurrentAppendsKept ==
    \A chatId \in AllChatIds :
        /\ \A r \in Appended(chatId) :
             \E p \in PromptsOf(prompts, chatId) :
                 /\ p.id = req[r].result.value.id
                 /\ p.prompt = req[r].prompt
                 /\ p.response = req[r].result.value.response
                 /\ p.user_id = req[r].user
        /\ \A r, q \in Appended(chatId) :
             r # q => req[r].result.value.id # req[q].result.value.id
        /\ Cardinality(PromptsOf(prompts, chatId)) >= Cardinality(Appended(chatId))

C21_Witness ==
    /\ Appended(ChatId(1)) = Reqs
    /\ \E r \in Reqs : req[r].chatId = ChatId(1)
    /\ \E r \in Reqs : req[r].op = "getAIResponse"
    /\ \E r \in Reqs : req[r].op = "savePrompt"
    /\ Cardinality(PromptsOf(prompts, ChatId(1))) = 2

\* The outbound calls a request has issued.
Fetches(r) == {i \in DOMAIN req[r].log : req[r].log[i].what = "fetch"}

\* C22: a getAIResponse issues at most one outbound call to a vendor; when
\* the vendor's reply is a failure the request has ended in failure with
\* that one call as the only thing it did.
C22_AtMostOneOutboundCall ==
    \A r \in Reqs :
        req[r].op = "getAIResponse"
        =>
        /\ Cardinality(Fetches(r)) <= 1
        /\ \A i \in Fetches(r) : req[r].log[i].id = req[r].provider
        /\ (req[r].reply # NoReply /\ ~Adapter(req[r].provider, req[r].reply).ok)
             => /\ req[r].pc = "done"
                /\ ~req[r].result.ok
                /\ Len(req[r].log) = 1

C22_Witness ==
    \E r \in Reqs :
        /\ Ended(r, "getAIResponse")
        /\ req[r].provider = "gemini"
        /\ req[r].reply = Reply(200, JsonBody("object", "text"))
        /\ ~req[r].result.ok
        /\ Cardinality(Fetches(r)) = 1

C25_MissingTextRejected ==
    /\ \A r \in Reqs :
         ( /\ Ended(r, "getAIResponse")
           /\ req[r].reply.net = "ok"
           /\ HttpOk(req[r].reply.status)
           /\ req[r].reply.body.kind = "json"
           /\ req[r].reply.body.error = "absent"
           /\ req[r].reply.body.gen # "text" )
         =>
         /\ ~req[r].result.ok
         /\ NoStoreCall(r)
         /\ SameTables(r)
    /\ \A p \in prompts : p.metadata = "ip" => p.response # ""

\* C26: a deleteChat whose delete on prompts succeeded and whose delete on
\* chats then failed has ended in the error of that delete; it has not
\* returned true.
C26_ChatDeleteFailureReported ==
    \A r \in Reqs :
        ( /\ Ended(r, "deleteChat")
          /\ \E i \in DOMAIN req[r].log :
               req[r].log[i].what = "prompts.delete" /\ req[r].log[i].ok
          /\ \E i \in DOMAIN req[r].log :
               req[r].log[i].what = "chats.delete" /\ ~req[r].log[i].ok )
        =>
        /\ ~req[r].result.ok
        /\ req[r].result.kind = "StoreWrite"
        /\ Contains(req[r].result.msg, "Failed to delete chat: ")

C26_Witness ==
    \E r \in Reqs :
        /\ Ended(r, "deleteChat")
        /\ ~req[r].result.ok
        /\ \E i \in DOMAIN req[r].log : req[r].log[i].what = "chats.delete"
        /\ PromptsOf(req[r].before.prompts, req[r].chatId) # {}
        /\ PromptsOf(prompts, req[r].chatId) = {}
        /\ Owned(chats, req[r].chatId, req[r].user) # {}

\* C27: what getChats returns to caller U is every row of chats whose
\* user_id is U, each once, in a sequence in which each entry's updatedAt is
\* greater than or equal to the next one's; the first entry is a chat of U
\* with the latest updated_at.
C27_GetChatsNewestFirst ==
    \A r \in Reqs :
        (Ended(r, "getChats") /\ req[r].result.ok)
        =>
        LET items == req[r].result.value.items
            own == {c \in chats : c.user_id = req[r].user}
        IN  /\ {items[i] : i \in DOMAIN items} = {ChatValue(c) : c \in own}
            /\ Len(items) = Cardinality(own)
            /\ \A i \in 1..(Len(items) - 1) :
                 items[i].updatedAt >= items[i + 1].updatedAt
            /\ items # <<>> => \A c \in own : items[1].updatedAt >= c.updated_at

C27_Witness ==
    \E r \in Reqs :
        /\ Ended(r, "getChats")
        /\ req[r].result.ok
        /\ Len(req[r].result.value.items) = 2
        /\ req[r].result.value.items[1].updatedAt
             > req[r].result.value.items[2].updatedAt
        /\ req[r].result.value.items[1].id = ChatId(1)
        /\ req[r].result.value.items[1].createdAt
             < req[r].result.value.items[2].createdAt

\* C28: in every step every row of prompts either stays as it is, field
\* for field, or is removed whole by the prompts delete of a deleteChat of
\* the row's chat; no step leaves a row with the same id and another
\* provider, prompt, response, chat_id, user_id or created_at.
C28_MessageRowsImmutable ==
    [][\A p \in prompts :
          \/ p \in prompts'
          \/ /\ \A q \in prompts' : q.id # p.id
             /\ \E r \in Reqs :
                  /\ req[r].op = "deleteChat"
                  /\ req[r].pc = "deletePrompts"
                  /\ req'[r].pc = "deleteChat"
                  /\ req[r].chatId = p.chat_id
      ]_vars

C28_Witness ==
    \E r \in Reqs :
        /\ Ended(r, "deleteChat")
        /\ req[r].result.ok
        /\ \E p \in req[r].before.prompts :
             p.chat_id = req[r].chatId /\ \A q \in prompts : q.id # p.id
        /\ \E p \in req[r].before.prompts :
             p.chat_id # req[r].chatId /\ p \in prompts

\* The rows of chats that the request, served alone, has added.
ChatsAdded(r) ==
    {c \in chats : \A b \in req[r].before.chats : b.id # c.id}

\* C29: when a getAIResponse or savePrompt has ended, in success or in
\* failure, every chat row it created is the chat of at least one row of
\* prompts: no empty chat is left behind by a failed prompt insert.
C29_NoEmptyChatLeft ==
    \A r \in Reqs :
        ( /\ req[r].pc = "done"
          /\ req[r].op \in {"getAIResponse", "savePrompt"}
          /\ req[r].user # NoUser )
        =>
        \A c \in ChatsAdded(r) : \E p \in prompts : p.chat_id = c.id

\* C30: a savePrompt that returned, and a getAIResponse that returned, are
\* described by one and the same relation between the arguments (caller,
\* provider, prompt, response text, chatId), the tables found and the tables
\* left and value returned, the metadata of the message apart: a chat is
\* added exactly when chatId is absent or empty, titled from the prompt; one
\* message row is added, in that chat; the chat's updated_at is the time the
\* request read after the insert when the update took effect; every other
\* row is as found; the value returned is the message with the chat's id.
C30_SavePromptSamePersistence ==
    \A r \in Reqs :
        ( /\ req[r].pc = "done"
          /\ req[r].op \in {"getAIResponse", "savePrompt"}
          /\ req[r].result.ok )
        =>
        LET v == req[r].result.value
            chat == CHOOSE c \in chats : c.id = v.chatId
        IN  /\ \E c \in chats : c.id = v.chatId
            /\ IF Falsy(req[r].chatId)
               THEN /\ ChatsAdded(r) = {chat}
                    /\ chat.user_id = req[r].user
                    /\ chat.title = DefaultTitle(req[r].prompt)
               ELSE /\ ChatsAdded(r) = {}
                    /\ v.chatId = req[r].chatId
            /\ \A c \in chats :
                 c.id # v.chatId => c \in req[r].before.chats
            /\ \A b \in req[r].before.chats :
                 \E c \in chats :
                    /\ c.id = b.id
                    /\ [c EXCEPT !.updated_at = 0] = [b EXCEPT !.updated_at = 0]
                    /\ c.updated_at # b.updated_at
                         => c.id = v.chatId /\ ChatTouched(r)
            /\ ChatTouched(r) => chat.updated_at = req[r].ts
            /\ req[r].before.prompts \subseteq prompts
            /\ \E p \in prompts :
                 /\ MessagesAdded(r) = {p}
                 /\ [p EXCEPT !.metadata = ""] =
                      [id |-> v.id, user_id |-> req[r].user, chat_id |-> v.chatId,
                       provider |-> req[r].provider, prompt |-> req[r].prompt,
                       response |-> req[r].response, created_at |-> v.createdAt,
                       metadata |-> ""]
                 /\ p.metadata = IF req[r].op = "savePrompt" THEN "null" ELSE "ip"
            /\ v = [t |-> "AIResponse", id |-> v.id, provider |-> req[r].provider,
                    prompt |-> req[r].prompt, response |-> req[r].response,
                    createdAt |-> v.createdAt, chatId |-> v.chatId]

C30_Witness ==
    \E r \in Reqs :
        /\ Ended(r, "savePrompt")
        /\ req[r].result.ok
        /\ req[r].chatId = ChatId(1)
        /\ \E p \in req[r].before.prompts :
             p.chat_id = ChatId(1) /\ p.metadata = "ip" /\ p.response = req[r].response
        /\ \E c \in chats : c.id = ChatId(1) /\ c.updated_at > c.created_at
        /\ ChatsAdded(r) = {}

====
